---------------------------- MODULE Spec2Model ----------------------------
(***************************************************************************)
(* Model of streamlit_app.py, the Fear & Greed Index dashboard.            *)
(*                                                                         *)
(* Numbers.  Scores are floats in the program.  Here a score is an integer *)
(* number of hundredths (25.01 is 2501), so the band boundaries 25, 45,    *)
(* 55, 75 are 2500, 4500, 5500, 7500.  Values formatted with ".1f" or     *)
(* rounded with round(x, 1) are integers in tenths.                        *)
(*                                                                         *)
(* Strings.  A rating string is a sequence of one-character strings, so    *)
(* that str.replace and str.title are computed character by character.     *)
(*                                                                         *)
(* Optional values.  dict.get is modelled on records [st, v] where st is   *)
(* "absent" (no such key), "null" (JSON null) or "val".                    *)
(***************************************************************************)
EXTENDS Integers, Sequences, FiniteSets, TLC

VARIABLES
    now,        \* wall clock, in seconds
    server,     \* the payload the remote endpoint currently serves
    cache,      \* the single st.cache_data slot of fetch_fear_greed_data
    gets,       \* number of HTTP GETs issued so far
    calls,      \* log of the calls to fetch_fear_greed_data
    pc,         \* position of the script run
    data,       \* module variable data (line 164)
    loc,        \* module variables set at lines 171-187
    key_i,      \* position of the indicator loop in INDICATOR_KEYS
    col_idx,    \* module variable col_idx (line 233)
    rendered,   \* the elements the run has put on the page, in order
    arg,        \* classifier harness: the last two scores classified
    ret         \* classifier harness: their labels

vars == <<now, server, cache, gets, calls, pc, data, loc, key_i, col_idx,
          rendered, arg, ret>>

pageVars == <<now, server, cache, gets, calls, pc, data, loc, key_i, col_idx,
              rendered>>

----------------------------------------------------------------------------
(* Characters and strings                                                  *)

LowerChars == <<"a", "d", "e", "f", "g", "l", "m", "n", "r", "t", "u", "x">>
UpperChars == <<"A", "D", "E", "F", "G", "L", "M", "N", "R", "T", "U", "X">>

Range(s) == {s[i] : i \in 1..Len(s)}

IsLower(c) == c \in Range(LowerChars)
IsUpper(c) == c \in Range(UpperChars)
IsCased(c) == IsLower(c) \/ IsUpper(c)

IndexOf(s, c) == CHOOSE i \in 1..Len(s) : s[i] = c

\* str.upper / str.lower on one character
ToUpper(c) == IF IsLower(c) THEN UpperChars[IndexOf(LowerChars, c)] ELSE c
ToLower(c) == IF IsUpper(c) THEN LowerChars[IndexOf(UpperChars, c)] ELSE c

\* s.replace("_", " ")
ReplaceUnderscore(s) == [i \in 1..Len(s) |-> IF s[i] = "_" THEN " " ELSE s[i]]

\* s.title(): a cased character is upper-cased when it follows an uncased
\* character (or starts the string) and lower-cased otherwise.
Title(s) ==
    [i \in 1..Len(s) |->
        IF ~IsCased(s[i]) THEN s[i]
        ELSE IF i = 1 \/ ~IsCased(s[i - 1]) THEN ToUpper(s[i])
        ELSE ToLower(s[i])]

----------------------------------------------------------------------------
(* RATING_COLORS and _rating_label                                         *)

ExtremeFear  == <<"E", "x", "t", "r", "e", "m", "e", " ", "F", "e", "a", "r">>
Fear         == <<"F", "e", "a", "r">>
Neutral      == <<"N", "e", "u", "t", "r", "a", "l">>
Greed        == <<"G", "r", "e", "e", "d">>
ExtremeGreed == <<"E", "x", "t", "r", "e", "m", "e", " ", "G", "r", "e", "e", "d">>

Bands == {ExtremeFear, Fear, Neutral, Greed, ExtremeGreed}

RATING_COLORS(band) ==
    CASE band = ExtremeFear  -> "#d32f2f"
      [] band = Fear         -> "#f57c00"
      [] band = Neutral      -> "#fdd835"
      [] band = Greed        -> "#7cb342"
      [] band = ExtremeGreed -> "#2e7d32"

\* RATING_COLORS.get(band, "#666")
ColorOf(band) == IF band \in Bands THEN RATING_COLORS(band) ELSE "#666"

RatingLabelStrict(score) ==
    IF score < 2500 THEN ExtremeFear
    ELSE IF score < 4500 THEN Fear
    ELSE IF score < 5500 THEN Neutral
    ELSE IF score < 7500 THEN Greed
    ELSE ExtremeGreed

_rating_label(score) ==
    IF score <= 2500 THEN ExtremeFear
    ELSE IF score <= 4500 THEN Fear
    ELSE IF score <= 5500 THEN Neutral
    ELSE IF score <= 7500 THEN Greed
    ELSE ExtremeGreed

----------------------------------------------------------------------------
(* Number formatting                                                       *)

\* round(x, 1) and format(x, ".1f"): hundredths to tenths, ties to even
Round1(x) ==
    LET q == x \div 10
        r == x % 10
    IN  IF r < 5 THEN q
        ELSE IF r > 5 THEN q + 1
        ELSE IF q % 2 = 0 THEN q ELSE q + 1

----------------------------------------------------------------------------
(* The payload: the JSON object the endpoint returns                       *)

TTL == 300              \* @st.cache_data(ttl=300)
cols_per_row == 2

INDICATOR_KEYS ==
    << <<"market_momentum_sp500", "Market Momentum">>,
       <<"stock_price_strength", "Stock Price Strength">>,
       <<"stock_price_breadth", "Stock Price Breadth">>,
       <<"put_call_options", "Put and Call Options">>,
       <<"market_volatility_vix", "Market Volatility">>,
       <<"safe_haven_demand", "Safe Haven Demand">>,
       <<"junk_bond_demand", "Junk Bond Demand">> >>

Keys == {INDICATOR_KEYS[i][1] : i \in 1..Len(INDICATOR_KEYS)}

INDICATOR_INFO(label) ==
    CASE label = "Market Momentum"      -> "S&P 500 vs its 125-day moving average."
      [] label = "Stock Price Strength" -> "Net new 52-week highs vs lows on the NYSE."
      [] label = "Stock Price Breadth"  -> "Volume of advancing vs declining shares."
      [] label = "Put and Call Options" -> "Put/call ratio - high put volume signals fear."
      [] label = "Market Volatility"    -> "VIX level relative to its 50-day moving average."
      [] label = "Safe Haven Demand"    -> "Bond returns vs stock returns over 20 days."
      [] label = "Junk Bond Demand"     ->
            "Yield spread between junk bonds and investment-grade bonds."
      [] OTHER -> ""

\* optional number / optional string fields of a JSON object
NoNum  == [st |-> "absent", v |-> 0]
NullNum == [st |-> "null", v |-> 0]
Num(n) == [st |-> "val", v |-> n]
NoStr  == [st |-> "absent", v |-> <<>>]
Str(s) == [st |-> "val", v |-> s]

\* data is None
NoneData == [none |-> TRUE]
IsNone(d) == d.none

wExtreme == <<"e", "x", "t", "r", "e", "m", "e">>
wFear    == <<"f", "e", "a", "r">>
wGreed   == <<"g", "r", "e", "e", "d">>

\* rating strings tried: spellings of the five names and strings that are none
RatingStrings ==
    { wExtreme \o <<"_">> \o wFear,
      wExtreme \o <<" ">> \o wGreed,
      <<"e", "X", "T", "R", "E", "M", "E", "_", "f", "E", "A", "R">>,
      ExtremeGreed,
      wFear,
      <<"N", "E", "U", "T", "R", "A", "L">>,
      wGreed,
      Greed,
      <<>>,
      wExtreme \o <<"_", "_">> \o wFear,
      wExtreme \o wFear,
      <<"g", "r", "e", "a", "t">>,
      wFear \o <<"_">> }

RatingOpts == {NoStr} \cup {Str(s) : s \in RatingStrings}

BaseFg ==
    [st |-> "val", score |-> Num(7230), rating |-> Str(wGreed),
     previous_close |-> Num(7000), timestamp |-> Num(125000)]

\* "fear_and_greed" missing: data.get("fear_and_greed", {}) is the empty dict
EmptyFg ==
    [st |-> "absent", score |-> NoNum, rating |-> NoStr,
     previous_close |-> NoNum, timestamp |-> NoNum]

HistPoints == << [x |-> 3, y |-> 5000], [x |-> 1, y |-> 2000], [x |-> 2, y |-> 8000] >>

\* st "absent": no "fear_and_greed_historical" key; "nodata": the object has no
\* "data" key; "val": v is the "data" array
HistOpts ==
    { [st |-> "absent", v |-> <<>>], [st |-> "nodata", v |-> <<>>],
      [st |-> "val", v |-> <<>>], [st |-> "val", v |-> HistPoints] }

BaseHist == [st |-> "val", v |-> HistPoints]

\* st "absent": key missing; "null": JSON null; "val": an object with the fields
IndAbsent == [st |-> "absent", score |-> NoNum, rating |-> NoStr]
IndNull   == [st |-> "null", score |-> NoNum, rating |-> NoStr]
IndEmpty  == [st |-> "val", score |-> NoNum, rating |-> NoStr]
IndNoScore == [st |-> "val", score |-> NullNum, rating |-> Str(wFear)]
Ind(score, rating) == [st |-> "val", score |-> Num(score), rating |-> rating]

KeyIndex(key) == CHOOSE i \in 1..Len(INDICATOR_KEYS) : INDICATOR_KEYS[i][1] = key

BaseScore(key) == 1500 * KeyIndex(key) - 500

BaseInd(key) ==
    Ind(BaseScore(key),
        IF KeyIndex(key) % 3 = 0 THEN NoStr
        ELSE IF KeyIndex(key) % 3 = 1 THEN Str(wExtreme \o <<"_">> \o wFear)
        ELSE Str(<<"g", "r", "e", "a", "t">>))

BaseInds == [k \in Keys |-> BaseInd(k)]

Payload(fg, hist, ind) == [none |-> FALSE, fg |-> fg, hist |-> hist, ind |-> ind]

\* payloads varying the current reading
CurrentPayloads ==
    { Payload([BaseFg EXCEPT !.score = s, !.rating = r, !.previous_close = p],
              BaseHist, BaseInds) :
        s \in {NoNum, Num(1000), Num(2500), Num(2501), Num(7230), Num(7501)},
        r \in RatingOpts,
        p \in {NoNum, Num(7000)} }
    \cup
    { Payload([BaseFg EXCEPT !.score = s, !.rating = NoStr, !.previous_close = p],
              BaseHist, BaseInds) :
        s \in {Num(7230), Num(4404)},
        p \in {NoNum, Num(7235), Num(7225), Num(8000), Num(0)} }
    \cup
    { Payload(EmptyFg, h, BaseInds) : h \in HistOpts }

\* payloads with every combination of missing history, timestamp and indicators
MissingPayloads ==
    { Payload([BaseFg EXCEPT !.timestamp = t], h,
              [k \in Keys |-> IF k \in present THEN BaseInd(k) ELSE IndAbsent]) :
        t \in {NoNum, NullNum, Num(125000)},
        h \in HistOpts,
        present \in SUBSET Keys }

\* payloads with every indicator absent, present without a score, or scored
IndicatorPayloads ==
    { Payload(BaseFg, BaseHist, ind) :
        ind \in [Keys -> {IndAbsent, IndNoScore}] }
    \cup
    { Payload(BaseFg, BaseHist,
              [k \in Keys |-> IF k \in present THEN BaseInd(k) ELSE o]) :
        present \in SUBSET Keys,
        o \in {IndNoScore, IndNull, IndEmpty} }
    \cup
    { Payload(BaseFg, BaseHist, [BaseInds EXCEPT ![k] = Ind(s, r)]) :
        k \in Keys, s \in {0, 2500, 5501, 9000}, r \in RatingOpts }

Payloads == CurrentPayloads \cup MissingPayloads \cup IndicatorPayloads

----------------------------------------------------------------------------
(* fetch_fear_greed_data and its st.cache_data(ttl=300) wrapper            *)
(*                                                                         *)
(* st.cache_data keeps one entry for the argument-less function: the       *)
(* returned value, whatever it is (None included), and the elements the    *)
(* function put on the page, which are replayed on a cache hit.  An entry  *)
(* is served while less than ttl seconds have passed since it was stored;  *)
(* a call that raises stores nothing.                                      *)

MaxTime == 620          \* the clock stops here
MaxCalls == 3           \* script runs explored when time and the server vary
MaxRuns == 2            \* script runs explored over the full payload set
Margin == 2             \* classifier scores tried around every boundary

Timeout == 10           \* requests.get(..., timeout=10)

\* what a GET can end in
Outcomes == {"ok", "null_body", "transport_error", "http_error", "parse_error"}
Failures == {"transport_error", "http_error", "parse_error"}

\* seconds a GET can take
GetDurations == {0, Timeout}

EmptyCache == [full |-> FALSE, value |-> NoneData, storedAt |-> 0, msgs |-> <<>>]

FreshAlways(entry, t) == entry.full

\* the cache lookup: an entry stored less than ttl seconds ago
Fresh(entry, t) == entry.full /\ t < entry.storedAt + TTL

\* lines 59-61: requests.get raises on a transport failure, raise_for_status
\* on a non-success status, resp.json() on a body that is not JSON
TryGet(outcome, srv) ==
    CASE outcome = "ok"              -> [exc |-> "none", value |-> srv]
      [] outcome = "null_body"       -> [exc |-> "none", value |-> NoneData]
      [] outcome = "transport_error" -> [exc |-> "ConnectionError", value |-> NoneData]
      [] outcome = "http_error"      -> [exc |-> "HTTPError", value |-> NoneData]
      [] outcome = "parse_error"     -> [exc |-> "JSONDecodeError", value |-> NoneData]

CaughtHTTPOnly(exc) == exc = "HTTPError"

\* line 62: except Exception
Caught(exc) == exc \in {"ConnectionError", "HTTPError", "JSONDecodeError"}

FetchSilent(outcome, srv) ==
    LET r == TryGet(outcome, srv)
    IN  [raised |-> FALSE, value |-> r.value, msgs |-> <<>>]

\* the function body, lines 50-64: the value returned, whether it raised, and
\* the elements it put on the page
fetch_fear_greed_data(outcome, srv) ==
    LET r == TryGet(outcome, srv)
    IN  IF r.exc = "none"
        THEN [raised |-> FALSE, value |-> r.value, msgs |-> <<>>]
        ELSE IF Caught(r.exc)
        THEN [raised |-> FALSE, value |-> NoneData,
              msgs |-> << [w |-> "error", cause |-> r.exc] >>]
        ELSE [raised |-> TRUE, value |-> NoneData, msgs |-> <<>>]

\* what the wrapper stores after the body returned r at time t
Store(r, t) ==
    [full |-> TRUE, value |-> r.value, storedAt |-> t, msgs |-> r.msgs]

CallRecord(start, hit, n, outcome, result, raised, before, after) ==
    [start |-> start, hit |-> hit, gets |-> n, outcome |-> outcome,
     result |-> result, raised |-> raised, before |-> before, after |-> after]

----------------------------------------------------------------------------
(* The script run                                                          *)

Idle == pc \in {"idle", "done", "stopped", "crashed"}

NoLoc ==
    [current_score |-> 0, rating_display |-> <<>>, color |-> "",
     previous_close |-> 0, last_updated |-> NoNum]

\* lines 161-162: a run starts; Streamlit reruns the script from the top
StartRun(limit) ==
    /\ Idle
    /\ Len(calls) < limit
    /\ pc' = "fetch"
    /\ rendered' = << [w |-> "title"], [w |-> "caption"] >>
    /\ data' = NoneData
    /\ loc' = NoLoc
    /\ key_i' = 0
    /\ col_idx' = 0
    /\ UNCHANGED <<now, server, cache, gets, calls, arg, ret>>

\* line 164, the entry is fresh: the stored value and elements are replayed
FetchHit ==
    /\ pc = "fetch"
    /\ Fresh(cache, now)
    /\ data' = cache.value
    /\ rendered' = rendered \o cache.msgs
    /\ calls' = Append(calls,
                   CallRecord(now, TRUE, 0, "hit", cache.value, FALSE, cache, cache))
    /\ pc' = "check"
    /\ UNCHANGED <<now, server, cache, gets, loc, key_i, col_idx, arg, ret>>

\* line 164, no fresh entry: the body runs, issuing one GET that takes d
\* seconds and ends in outcome
FetchMiss(outcome, d) ==
    /\ pc = "fetch"
    /\ ~Fresh(cache, now)
    /\ LET r == fetch_fear_greed_data(outcome, server)
           stored == IF r.raised THEN cache ELSE Store(r, now + d)
       IN  /\ gets' = gets + 1
           /\ now' = now + d
           /\ cache' = stored
           /\ data' = r.value
           /\ rendered' = rendered \o r.msgs
           /\ calls' = Append(calls,
                          CallRecord(now, FALSE, 1, outcome, r.value, r.raised,
                                     cache, stored))
           /\ pc' = IF r.raised THEN "crashed" ELSE "check"
    /\ UNCHANGED <<server, loc, key_i, col_idx, arg, ret>>

\* lines 166-168
CheckNone ==
    /\ pc = "check"
    /\ IF IsNone(data)
       THEN /\ rendered' = Append(rendered, [w |-> "warning"])
            /\ pc' = "stopped"
       ELSE /\ rendered' = rendered
            /\ pc' = "current"
    /\ UNCHANGED <<now, server, cache, gets, calls, data, loc, key_i, col_idx, arg, ret>>

\* line 171: data.get("fear_and_greed", {})
FgOf(d) == IF d.fg.st = "absent" THEN EmptyFg ELSE d.fg

\* line 172: fg.get("score", 0)
current_score(fg) == IF fg.score.st = "absent" THEN 0 ELSE fg.score.v

\* line 173: fg.get("rating", _rating_label(current_score))
current_rating(fg) ==
    IF fg.rating.st = "absent" THEN _rating_label(current_score(fg)) ELSE fg.rating.v

PreviousCloseZero(fg) == IF fg.previous_close.st = "absent" THEN 0 ELSE fg.previous_close.v

\* line 174: fg.get("previous_close", current_score)
previous_close(fg) ==
    IF fg.previous_close.st = "absent" THEN current_score(fg) ELSE fg.previous_close.v

NormaliseNoFallback(rating, score) == Title(ReplaceUnderscore(rating))

NormaliseNoReplace(rating, score) ==
    IF Title(rating) \notin Bands THEN _rating_label(score) ELSE Title(rating)

\* lines 178-180 and 245-247: rating.replace("_", " ").title(), replaced by
\* _rating_label(score) when it is not a key of RATING_COLORS
Normalise(rating, score) ==
    LET shown == Title(ReplaceUnderscore(rating))
    IN  IF shown \notin Bands THEN _rating_label(score) ELSE shown

\* lines 183-187: "" unless timestamp_ms is truthy; the text holds the time to
\* the minute
last_updated(fg) ==
    IF fg.timestamp.st = "val" /\ fg.timestamp.v # 0
    THEN Num((fg.timestamp.v \div 1000) \div 60)
    ELSE NoNum

\* lines 171-187
Current ==
    /\ pc = "current"
    /\ LET fg == FgOf(data)
           shown == Normalise(current_rating(fg), current_score(fg))
       IN  loc' = [current_score |-> current_score(fg),
                   rating_display |-> shown,
                   color |-> ColorOf(shown),
                   previous_close |-> previous_close(fg),
                   last_updated |-> last_updated(fg)]
    /\ pc' = "top"
    /\ UNCHANGED <<now, server, cache, gets, calls, data, key_i, col_idx, rendered,
                   arg, ret>>

\* line 201: round(current_score - previous_close, 1)
Delta(score, prev) == Round1(score - prev)

\* lines 190-216: the gauge and the current-sentiment panel
TopRow ==
    /\ pc = "top"
    /\ rendered' = rendered
         \o << [w |-> "gauge", value |-> loc.current_score],
               [w |-> "heading"],
               [w |-> "sentiment", band |-> loc.rating_display, color |-> loc.color],
               [w |-> "metric", value |-> Round1(loc.current_score),
                delta |-> Delta(loc.current_score, loc.previous_close)] >>
         \o (IF loc.last_updated.st = "val"
             THEN << [w |-> "last_updated", minute |-> loc.last_updated.v] >>
             ELSE << >>)
         \o << [w |-> "table"] >>
    /\ pc' = "history"
    /\ UNCHANGED <<now, server, cache, gets, calls, data, loc, key_i, col_idx, arg, ret>>

\* insertion of point p into a sequence sorted by x
RECURSIVE Insert(_, _)
Insert(p, sorted) ==
    IF sorted = << >> THEN <<p>>
    ELSE IF p.x <= Head(sorted).x THEN <<p>> \o sorted
    ELSE <<Head(sorted)>> \o Insert(p, Tail(sorted))

\* line 100: df.sort_values("date")
RECURSIVE SortByDate(_)
SortByDate(points) ==
    IF points = << >> THEN << >>
    ELSE Insert(Head(points), SortByDate(Tail(points)))

BuildChartOfEmpty(d) ==
    IF d.hist.st # "val"
    THEN [fig |-> FALSE, points |-> << >>]
    ELSE [fig |-> TRUE, points |-> SortByDate(d.hist.v)]

\* lines 91-131: None when there is no history, else the chart of the points
\* in date order
build_history_chart(d) ==
    LET hist == IF d.hist.st = "val" THEN d.hist.v ELSE << >>
    IN  IF hist = << >>
        THEN [fig |-> FALSE, points |-> << >>]
        ELSE [fig |-> TRUE, points |-> SortByDate(hist)]

\* lines 219-224
History ==
    /\ pc = "history"
    /\ LET hist_fig == build_history_chart(data)
       IN  rendered' = rendered
             \o << [w |-> "divider"],
                   IF hist_fig.fig
                   THEN [w |-> "chart", points |-> hist_fig.points]
                   ELSE [w |-> "info"] >>
    /\ pc' = "indicators"
    /\ UNCHANGED <<now, server, cache, gets, calls, data, loc, key_i, col_idx, arg, ret>>

\* lines 227-233
IndicatorsHeader ==
    /\ pc = "indicators"
    /\ rendered' = rendered \o << [w |-> "divider"], [w |-> "subheader"] >>
    /\ col_idx' = 0
    /\ key_i' = 1
    /\ pc' = "loop"
    /\ UNCHANGED <<now, server, cache, gets, calls, data, loc, arg, ret>>

\* lines 236-238 and 240-243: the indicator is skipped when the key is missing,
\* null or an empty object, or when it has no score
Skipped(indicator) ==
    \/ indicator.st # "val"
    \/ (indicator.score.st = "absent" /\ indicator.rating.st = "absent")
    \/ indicator.score.st # "val"

ColumnOfKey(idx, i) == (i - 1) % cols_per_row

\* line 250: row_cols[col_idx % cols_per_row]
ColumnOf(idx, i) == idx % cols_per_row

\* lines 240-264: the card of indicator number i
Card(indicator, i, idx) ==
    LET label == INDICATOR_KEYS[i][2]
        score == indicator.score.v
        rating == IF indicator.rating.st = "absent" THEN << >> ELSE indicator.rating.v
        ind_rating == Normalise(rating, score)
    IN  [w |-> "card", col |-> ColumnOf(idx, i), label |-> label,
         band |-> ind_rating, color |-> ColorOf(ind_rating),
         score |-> Round1(score), info |-> INDICATOR_INFO(label)]

\* lines 235-265: one iteration of the loop over INDICATOR_KEYS
IndicatorStep ==
    /\ pc = "loop"
    /\ LET indicator == data.ind[INDICATOR_KEYS[key_i][1]]
       IN  IF Skipped(indicator)
           THEN /\ rendered' = rendered
                /\ col_idx' = col_idx
           ELSE /\ rendered' = Append(rendered, Card(indicator, key_i, col_idx))
                /\ col_idx' = col_idx + 1
    /\ key_i' = key_i + 1
    /\ pc' = IF key_i = Len(INDICATOR_KEYS) THEN "footer" ELSE "loop"
    /\ UNCHANGED <<now, server, cache, gets, calls, data, loc, arg, ret>>

\* lines 268-272
Footer ==
    /\ pc = "footer"
    /\ rendered' = rendered \o << [w |-> "divider"], [w |-> "footer"] >>
    /\ pc' = "done"
    /\ UNCHANGED <<now, server, cache, gets, calls, data, loc, key_i, col_idx, arg, ret>>

Run ==
    \/ CheckNone
    \/ Current
    \/ TopRow
    \/ History
    \/ IndicatorsHeader
    \/ IndicatorStep
    \/ Footer

----------------------------------------------------------------------------
(* The environment                                                         *)

\* time passes between runs
Tick(d) ==
    /\ Idle
    /\ now + d <= MaxTime
    /\ now' = now + d
    /\ UNCHANGED <<server, cache, gets, calls, pc, data, loc, key_i, col_idx,
                   rendered, arg, ret>>

\* the endpoint publishes a new payload
ServerUpdate(p) ==
    /\ Idle
    /\ p # server
    /\ server' = p
    /\ UNCHANGED <<now, cache, gets, calls, pc, data, loc, key_i, col_idx,
                   rendered, arg, ret>>

----------------------------------------------------------------------------
(* Specifications                                                          *)

InitPage(payloads) ==
    /\ now = 0
    /\ server \in payloads
    /\ cache = EmptyCache
    /\ gets = 0
    /\ calls = << >>
    /\ pc = "idle"
    /\ data = NoneData
    /\ loc = NoLoc
    /\ key_i = 0
    /\ col_idx = 0
    /\ rendered = << >>
    /\ arg = << >>
    /\ ret = << >>

\* Spec: the script run over every payload; a rerun is served from the cache
Init == InitPage(Payloads)

Next ==
    \/ StartRun(MaxRuns)
    \/ FetchHit
    \/ \E outcome \in Outcomes : FetchMiss(outcome, 0)
    \/ Run

Spec == Init /\ [][Next]_vars

\* SpecCache: runs spread over time against an endpoint whose payload changes
CachePayloads ==
    { Payload(BaseFg, BaseHist, BaseInds),
      Payload([BaseFg EXCEPT !.score = Num(2500), !.rating = NoStr],
              [st |-> "absent", v |-> <<>>],
              [BaseInds EXCEPT !["junk_bond_demand"] = IndAbsent]) }

TickSteps == {299, 300}

InitCache == InitPage(CachePayloads)

NextCache ==
    \/ StartRun(MaxCalls)
    \/ FetchHit
    \/ \E outcome \in Outcomes, d \in GetDurations : FetchMiss(outcome, d)
    \/ Run
    \/ \E d \in TickSteps : Tick(d)
    \/ \E p \in CachePayloads : ServerUpdate(p)

SpecCache == InitCache /\ [][NextCache]_vars

\* SpecClassify: _rating_label applied to scores around every boundary
Boundaries == {0, 2500, 4500, 5500, 7500, 10000}

ClassifyScores ==
    {b + e : b \in Boundaries, e \in (0 - Margin)..Margin} \cup {-100000, 100000}

Classify(score) ==
    /\ arg' = <<score>> \o (IF arg = << >> THEN << >> ELSE <<arg[1]>>)
    /\ ret' = <<_rating_label(score)>> \o (IF ret = << >> THEN << >> ELSE <<ret[1]>>)
    /\ UNCHANGED pageVars

InitClassify == InitPage({NoneData})

NextClassify == \E score \in ClassifyScores : Classify(score)

SpecClassify == InitClassify /\ [][NextClassify]_vars

----------------------------------------------------------------------------
(* Properties                                                              *)

Abs(n) == IF n < 0 THEN 0 - n ELSE n

Widgets(kind) == SelectSeq(rendered, LAMBDA e : e.w = kind)

Cards == Widgets("card")

KeyOfLabel(label) ==
    INDICATOR_KEYS[CHOOSE i \in 1..Len(INDICATOR_KEYS) : INDICATOR_KEYS[i][2] = label][1]

\* the raw reading behind a card
IndicatorOf(card) == data.ind[KeyOfLabel(card.label)]

BandRank(band) ==
    CASE band = ExtremeFear  -> 1
      [] band = Fear         -> 2
      [] band = Neutral      -> 3
      [] band = Greed        -> 4
      [] band = ExtremeGreed -> 5

\* C1: for every score s, below 0 and above 100 included, _rating_label(s) is
\* one of the five bands: Extreme Fear iff s <= 25, Fear iff 25 < s <= 45,
\* Neutral iff 45 < s <= 55, Greed iff 55 < s <= 75, Extreme Greed iff s > 75;
\* and the band does not decrease when the score grows.
C1_RatingLabelBands ==
    /\ \A i \in 1..Len(arg) :
        /\ ret[i] \in Bands
        /\ (ret[i] = ExtremeFear) <=> (arg[i] <= 2500)
        /\ (ret[i] = Fear) <=> (2500 < arg[i] /\ arg[i] <= 4500)
        /\ (ret[i] = Neutral) <=> (4500 < arg[i] /\ arg[i] <= 5500)
        /\ (ret[i] = Greed) <=> (5500 < arg[i] /\ arg[i] <= 7500)
        /\ (ret[i] = ExtremeGreed) <=> (arg[i] > 7500)
    /\ Len(arg) = 2 /\ arg[1] <= arg[2] => BandRank(ret[1]) <= BandRank(ret[2])

\* the scores 25.00 and 25.01 have both been classified
C1_Witness == arg = <<2501, 2500>> /\ ret = <<Fear, ExtremeFear>>

\* rating r spells band b: equal up to letter case, "_" standing for " "
Spells(r, b) ==
    /\ Len(r) = Len(b)
    /\ \A i \in 1..Len(r) : ToLower(IF r[i] = "_" THEN " " ELSE r[i]) = ToLower(b[i])

\* the band a supplied rating spells, if any
SpelledBands(rating) ==
    IF rating.st = "absent" THEN {} ELSE {b \in Bands : Spells(rating.v, b)}

\* the band and the score of the current reading and of every card rendered,
\* with the rating the payload supplied for it
Readings ==
    { [band |-> e.band, color |-> e.color, score |-> current_score(FgOf(data)),
       rating |-> FgOf(data).rating] :
        e \in Range(Widgets("sentiment")) }
    \cup
    { [band |-> e.band, color |-> e.color, score |-> IndicatorOf(e).score.v,
       rating |-> IndicatorOf(e).rating] :
        e \in Range(Cards) }

\* C2 as claimed: every band displayed is _rating_label of the reading's
\* score, whatever rating the payload supplies.
C2_Original == \A r \in Readings : r.band = _rating_label(r.score)

\* C2 as amended: the band displayed is _rating_label of the reading's score
\* unless the supplied rating spells one of the five band names (ignoring
\* case, "_" for " "), and then it is the band the rating spells, even when
\* the score lies in another band.
C2_BandFromScoreUnlessRatingIsBand ==
    \A r \in Readings :
        /\ SpelledBands(r.rating) = {} => r.band = _rating_label(r.score)
        /\ \A b \in SpelledBands(r.rating) : r.band = b

\* a run displayed a score-derived band for a current rating that is no band
\* name, and a card
C2_Witness ==
    /\ pc = "done"
    /\ FgOf(data).rating = Str(<<"g", "r", "e", "a", "t">>)
    /\ \E e \in Range(Widgets("sentiment")) : e.band = _rating_label(7501)
    /\ Len(Cards) = 7

\* C8: the supplied rating, underscores replaced by spaces and title-cased, is
\* the displayed band when it is one of the five names (a canonical name is
\* kept, extreme_fear gives Extreme Fear); otherwise, and when no rating is
\* supplied, the band is _rating_label(score).  The band is always one of the
\* five names and its colour is that band's colour, never the grey default.
C8_LabelNormalisation ==
    \A r \in Readings :
        /\ r.rating.st = "val" /\ Title(ReplaceUnderscore(r.rating.v)) \in Bands
              => r.band = Title(ReplaceUnderscore(r.rating.v))
        /\ r.rating.st = "val" /\ Title(ReplaceUnderscore(r.rating.v)) \notin Bands
              => r.band = _rating_label(r.score)
        /\ r.rating.st = "absent" => r.band = _rating_label(r.score)
        /\ r.rating.st = "val" /\ r.rating.v \in Bands => r.band = r.rating.v
        /\ r.rating = Str(wExtreme \o <<"_">> \o wFear) => r.band = ExtremeFear
        /\ r.band \in Bands
        /\ r.color # "#666"
        /\ r.color = (CASE r.band = ExtremeFear  -> "#d32f2f"
                        [] r.band = Fear         -> "#f57c00"
                        [] r.band = Neutral      -> "#fdd835"
                        [] r.band = Greed        -> "#7cb342"
                        [] r.band = ExtremeGreed -> "#2e7d32")

\* extreme_fear was supplied for a current score of 75.01 and a card got a
\* rating that is no band name
C8_Witness ==
    /\ pc = "done"
    /\ FgOf(data).rating = Str(wExtreme \o <<"_">> \o wFear)
    /\ FgOf(data).score = Num(7501)
    /\ \E e \in Range(Widgets("sentiment")) : e.band = ExtremeFear /\ e.color = "#d32f2f"
    /\ \E e \in Range(Cards) : IndicatorOf(e).rating = Str(<<"g", "r", "e", "a", "t">>)

\* C10: the delta shown is the current score minus previous_close to one
\* decimal place; without previous_close in the payload it is zero.
C10_Delta ==
    \A e \in Range(Widgets("metric")) :
        LET fg == FgOf(data)
            score == IF fg.score.st = "val" THEN fg.score.v ELSE 0
        IN  /\ fg.previous_close.st = "val"
                 => Abs(10 * e.delta - (score - fg.previous_close.v)) <= 5
            /\ fg.previous_close.st = "absent" => e.delta = 0

\* a score of 72.30 shown without previous_close
C10_Witness ==
    /\ pc = "done"
    /\ FgOf(data).score = Num(7230)
    /\ FgOf(data).previous_close.st = "absent"
    /\ \E e \in Range(Widgets("metric")) : e.delta = 0 /\ e.value = 723

\* the labels of the indicators the payload holds with a non-null score, in
\* the order of INDICATOR_KEYS from position i on
RECURSIVE ScoredLabels(_, _)
ScoredLabels(d, i) ==
    IF i > Len(INDICATOR_KEYS) THEN << >>
    ELSE LET e == d.ind[INDICATOR_KEYS[i][1]]
         IN  (IF e.st = "val" /\ e.score.st = "val"
              THEN << INDICATOR_KEYS[i][2] >> ELSE << >>)
             \o ScoredLabels(d, i + 1)

\* C7: the cards rendered are exactly the indicators of INDICATOR_KEYS present
\* in the payload with a non-null score, in declared order, and the k-th card
\* rendered (from 0) is in column k mod 2.
C7_IndicatorCards ==
    /\ \A k \in 1..Len(Cards) : Cards[k].col = (k - 1) % 2
    /\ pc \in {"footer", "done"} =>
          [k \in 1..Len(Cards) |-> Cards[k].label] = ScoredLabels(data, 1)

\* a payload lacking only junk_bond_demand gave six cards, the fifth and sixth
\* in columns 0 and 1
C7_Witness ==
    /\ pc = "done"
    /\ \A k \in Keys : (data.ind[k].st = "absent") <=> (k = "junk_bond_demand")
    /\ Len(Cards) = 6
    /\ Cards[5].col = 0 /\ Cards[6].col = 1
    /\ Cards[6].label = "Safe Haven Demand"

\* the page of the complete payload Payload(BaseFg, BaseHist, BaseInds)
CompleteCard(i, band, color, score) ==
    [w |-> "card", col |-> (i - 1) % 2, label |-> INDICATOR_KEYS[i][2],
     band |-> band, color |-> color, score |-> score,
     info |-> INDICATOR_INFO(INDICATOR_KEYS[i][2])]

CompletePage ==
    << [w |-> "title"], [w |-> "caption"],
       [w |-> "gauge", value |-> 7230],
       [w |-> "heading"],
       [w |-> "sentiment", band |-> Greed, color |-> "#7cb342"],
       [w |-> "metric", value |-> 723, delta |-> 23],
       [w |-> "last_updated", minute |-> 2],
       [w |-> "table"],
       [w |-> "divider"],
       [w |-> "chart", points |-> << [x |-> 1, y |-> 2000], [x |-> 2, y |-> 8000],
                                    [x |-> 3, y |-> 5000] >>],
       [w |-> "divider"], [w |-> "subheader"],
       CompleteCard(1, ExtremeFear, "#d32f2f", 100),
       CompleteCard(2, ExtremeFear, "#d32f2f", 250),
       CompleteCard(3, Fear, "#f57c00", 400),
       CompleteCard(4, ExtremeFear, "#d32f2f", 550),
       CompleteCard(5, Greed, "#7cb342", 700),
       CompleteCard(6, ExtremeGreed, "#2e7d32", 850),
       CompleteCard(7, ExtremeFear, "#d32f2f", 1000),
       [w |-> "divider"], [w |-> "footer"] >>

\* what payload d lacks of the complete payload
NoTimestamp(d) == d.fg.timestamp.st # "val"
NoHistory(d) == d.hist.st # "val" \/ d.hist.v = << >>
NoIndicator(d, label) == d.ind[KeyOfLabel(label)].st = "absent"

\* d is the complete payload less some of its history, timestamp, indicators
Degraded(d) ==
    /\ ~IsNone(d)
    /\ d.fg = [BaseFg EXCEPT !.timestamp = d.fg.timestamp]
    /\ d.fg.timestamp \in {NoNum, NullNum, BaseFg.timestamp}
    /\ d.hist.st = "val" /\ d.hist.v # << >> => d.hist = BaseHist
    /\ \A k \in Keys : d.ind[k] \in {IndAbsent, BaseInd(k)}

\* the complete page with the widgets of the missing parts taken out and the
\* chart replaced by the notice
DegradedPage(d) ==
    LET kept == SelectSeq(CompletePage,
                   LAMBDA e : /\ e.w = "last_updated" => ~NoTimestamp(d)
                              /\ e.w = "card" => ~NoIndicator(d, e.label))
    IN  [i \in 1..Len(kept) |->
            IF kept[i].w = "chart" /\ NoHistory(d) THEN [w |-> "info"] ELSE kept[i]]

\* a widget without its grid position
Unplaced(e) == IF e.w = "card" THEN [e EXCEPT !.col = 0] ELSE e

\* C9: a fetched payload never aborts the run, whatever it lacks: the run goes
\* on to the footer; and when history, timestamp or indicators are missing
\* from the complete payload the page is the complete page with the notice in
\* place of the chart, without the cards of the missing indicators and
\* without the "Last updated" line, every other widget as it was.
C9_MissingDataTolerated ==
    /\ ~IsNone(data) => pc \notin {"stopped", "crashed"}
    /\ ~IsNone(data) /\ pc \notin {"done", "idle"} => ENABLED Run
    /\ pc = "done" => rendered[Len(rendered)] = [w |-> "footer"]
    /\ pc = "done" /\ Degraded(data) =>
          [i \in 1..Len(rendered) |-> Unplaced(rendered[i])]
             = [i \in 1..Len(DegradedPage(data)) |-> Unplaced(DegradedPage(data)[i])]

\* a run over a payload without history, without timestamp and with three
\* indicators missing reached the footer
C9_Witness ==
    /\ pc = "done"
    /\ Degraded(data)
    /\ data.hist.st = "absent"
    /\ data.fg.timestamp.st = "absent"
    /\ Cardinality({k \in Keys : data.ind[k].st = "absent"}) = 3
    /\ Len(Widgets("info")) = 1
    /\ Len(Cards) = 4
    /\ Len(Widgets("footer")) = 1

\* the call that fetched what call number j returned
Origin(j) ==
    IF ~calls[j].hit THEN calls[j]
    ELSE calls[CHOOSE i \in 1..j :
                 /\ ~calls[i].hit
                 /\ \A k \in (i + 1)..j : calls[k].hit]

FailureMessages == SelectSeq(rendered, LAMBDA e : e.w \in {"error", "warning"})

Succeeded(c) == ~IsNone(c.result)

\* C3 as claimed: two calls started less than 300 seconds apart, the first of
\* which succeeded, return equal data and together cause exactly one GET; a
\* call made once the 300 seconds have expired issues a new GET whose result
\* replaces the cached value.
C3_Original ==
    /\ \A i, j \in 1..Len(calls) :
          i < j /\ calls[j].start - calls[i].start < 300 /\ Succeeded(calls[i])
             => /\ calls[i].result = calls[j].result
                /\ calls[i].gets + calls[j].gets = 1
    /\ \A j \in 1..Len(calls) :
          calls[j].before.full /\ calls[j].start >= calls[j].before.storedAt + 300
             => /\ calls[j].gets = 1
                /\ calls[j].after.value = calls[j].result

\* C3 as amended: two calls started less than 300 seconds apart, the first of
\* which issued the GET and succeeded, return equal data and together cause
\* exactly one GET; a call made 300 seconds or more after the cached value
\* was stored issues a new GET whose result replaces the cached value.
C3_OneGetPerWindow ==
    /\ \A i, j \in 1..Len(calls) :
          /\ i < j
          /\ calls[j].start - calls[i].start < 300
          /\ Succeeded(calls[i])
          /\ ~calls[i].hit
          => /\ calls[i].result = calls[j].result
             /\ calls[i].gets + calls[j].gets = 1
    /\ \A j \in 1..Len(calls) :
          calls[j].before.full /\ calls[j].start >= calls[j].before.storedAt + 300
             => /\ ~calls[j].hit
                /\ calls[j].gets = 1
                /\ calls[j].after.value = calls[j].result
                /\ calls[j].after.storedAt >= calls[j].start

\* a GET that succeeded, a call 299 seconds later served from the cache, and a
\* call after expiry that fetched the payload the endpoint serves by then
C3_Witness ==
    /\ Len(calls) = 3
    /\ ~calls[1].hit /\ Succeeded(calls[1])
    /\ calls[2].hit /\ calls[2].start - calls[1].start = 299
    /\ calls[2].result = calls[1].result
    /\ ~calls[3].hit /\ Succeeded(calls[3])
    /\ calls[3].result # calls[1].result
    /\ cache.value = calls[3].result

\* C4 as claimed: a call that fails leaves nothing in the cache slot, and the
\* call after it issues a new GET even within 300 seconds.
C4_OnlySuccessMemoized ==
    \A j \in 1..Len(calls) :
        calls[j].outcome \in Failures =>
            /\ calls[j].after = calls[j].before
            /\ j < Len(calls) => calls[j + 1].gets = 1

\* C5: a call that finds no fresh entry issues exactly one GET; when the GET
\* fails the call returns None without raising, also when an expired
\* snapshot is still in the slot.
C5_OneGetNoRaiseNoStale ==
    /\ gets = Cardinality({j \in 1..Len(calls) : ~calls[j].hit})
    /\ pc # "crashed"
    /\ \A j \in 1..Len(calls) :
          /\ calls[j].hit <=>
                (calls[j].before.full
                    /\ calls[j].start < calls[j].before.storedAt + 300)
          /\ calls[j].hit => calls[j].gets = 0
          /\ ~calls[j].hit => calls[j].gets = 1
          /\ ~calls[j].hit /\ calls[j].outcome \in Failures =>
                /\ IsNone(calls[j].result)
                /\ ~calls[j].raised

\* each kind of failure was returned as None, the last with an expired
\* snapshot in the slot
C5_Witness ==
    /\ Len(calls) = 3
    /\ Succeeded(calls[1])
    /\ calls[2].outcome = "parse_error"
    /\ calls[2].before.full /\ ~IsNone(calls[2].before.value)
    /\ calls[2].start >= calls[2].before.storedAt + 300
    /\ IsNone(calls[2].result)
    /\ calls[3].outcome = "transport_error"
    /\ pc = "stopped"

=============================================================================
